---- MODULE Spec2Model ----
(***************************************************************************)
(* Model of the M-Pesa STK Push backend: the phone normalizer              *)
(* (utils/phoneFormatter.js), the two routes (routes/mpesa.routes.js),     *)
(* the Daraja client with its token cache (services/mpesa.service.js),     *)
(* the startup validation (utils/envValidator.js) and the process-level    *)
(* handlers (server.js).                                                   *)
(*                                                                         *)
(* JavaScript strings are sequences of one-character strings.  JSON values *)
(* are records tagged with their typeof.  Node runs one callback at a      *)
(* time, so an action is the code between two awaits.                      *)
(***************************************************************************)
EXTENDS Integers, Sequences, FiniteSets, TLC

VARIABLES
    arg,          \* harness: the argument a pure function is applied to
    ret,          \* harness: its result, Pending until applied
    env,          \* process.env: the configuration the process started with
    proc,         \* "starting" | "listening" | "exited"
    envErrors,    \* what validateEnvironment returned at startup
    exitCause,    \* "none" | "SIGTERM" | "SIGINT" | the error that ended the process
    faults,       \* the kinds of error the process-level and app-level handlers saw
    now,          \* Date.now(), milliseconds
    accessToken,  \* MpesaService.accessToken
    tokenExpiry,  \* MpesaService.tokenExpiry
    pc,           \* per request: "idle" | "awaitToken" | "awaitPush" | "done"
    req,          \* per request: its locals and its response
    issued,       \* remote: the token responses issued so far
    lastToken     \* history: what the last completed getAccessToken call returned

vars == <<arg, ret, env, proc, envErrors, exitCause, faults, now, accessToken,
          tokenExpiry, pc, req, issued, lastToken>>

---------------------------------------------------------------------------
(* JSON values as the handlers see them *)

Undefined == [t |-> "undefined"]
Null      == [t |-> "null"]
Num(n)    == [t |-> "number", v |-> n]
Str(s)    == [t |-> "string", v |-> s]
Bool(b)   == [t |-> "boolean", v |-> b]
Obj(k)    == [t |-> "object", v |-> k]

\* typeof x: null is an object
TypeOf(x) == IF x.t = "null" THEN "object" ELSE x.t

\* ToBoolean(x), as `!x` and `x &&` use it
Truthy(x) ==
    CASE x.t = "undefined" -> FALSE
      [] x.t = "null"      -> FALSE
      [] x.t = "number"    -> x.v # 0
      [] x.t = "string"    -> x.v # <<>>
      [] x.t = "boolean"   -> x.v
      [] OTHER             -> TRUE

Pending == [t |-> "pending"]

---------------------------------------------------------------------------
(* utils/phoneFormatter.js *)

Digit == {"0", "1", "2", "3", "4", "5", "6", "7", "8", "9"}

\* s.replace(/\D/g, '')
StripNonDigits(s) == SelectSeq(s, LAMBDA c : c \in Digit)

\* s.startsWith(p)
StartsWith(s, p) == Len(s) >= Len(p) /\ SubSeq(s, 1, Len(p)) = p

\* s.slice(1)
Slice1(s) == SubSeq(s, 2, Len(s))

Prefix254 == <<"2", "5", "4">>

\* the mutant: the bare 9-digit shape taken whatever its first digit
normalizeAnyBare(phoneNumber) ==
    IF ~Truthy(phoneNumber) \/ TypeOf(phoneNumber) # "string" THEN Null
    ELSE LET cleaned == StripNonDigits(phoneNumber.v) IN
         IF StartsWith(cleaned, <<"0">>) /\ Len(cleaned) = 10
           THEN Str(Prefix254 \o Slice1(cleaned))
         ELSE IF StartsWith(cleaned, Prefix254) /\ Len(cleaned) = 12
           THEN Str(cleaned)
         ELSE IF Len(cleaned) = 9
           THEN Str(Prefix254 \o cleaned)
         ELSE Null

\* the mutant: the leading zero kept
normalizeKeepZero(phoneNumber) ==
    IF ~Truthy(phoneNumber) \/ TypeOf(phoneNumber) # "string" THEN Null
    ELSE LET cleaned == StripNonDigits(phoneNumber.v) IN
         IF StartsWith(cleaned, <<"0">>) /\ Len(cleaned) = 10
           THEN Str(Prefix254 \o cleaned)
         ELSE IF StartsWith(cleaned, Prefix254) /\ Len(cleaned) = 12
           THEN Str(cleaned)
         ELSE IF StartsWith(cleaned, <<"7">>) /\ Len(cleaned) = 9
           THEN Str(Prefix254 \o cleaned)
         ELSE Null

normalizePhoneNumber(phoneNumber) ==
    IF ~Truthy(phoneNumber) \/ TypeOf(phoneNumber) # "string" THEN Null
    ELSE LET cleaned == StripNonDigits(phoneNumber.v)
             shaped  ==
                 IF StartsWith(cleaned, <<"0">>) /\ Len(cleaned) = 10
                   THEN Str(Prefix254 \o Slice1(cleaned))
                 ELSE IF StartsWith(cleaned, Prefix254) /\ Len(cleaned) = 12
                   THEN Str(cleaned)
                 ELSE IF StartsWith(cleaned, <<"7">>) /\ Len(cleaned) = 9
                   THEN Str(Prefix254 \o cleaned)
                 ELSE Null
         IN  IF shaped = Null THEN Null
             ELSE IF Len(shaped.v) = 12 /\ StartsWith(shaped.v, Prefix254)
               THEN shaped
             ELSE Null

---------------------------------------------------------------------------
(* routes/mpesa.routes.js: POST /stk-push, the code before the service call *)

MaxAmount        == 150000
MaxAccountRefLen == 20
MaxDescLen       == 100

\* the mutant: the ceiling itself rejected
AmountRejectedAtCeiling(amount) ==
    \/ ~Truthy(amount)
    \/ TypeOf(amount) # "number"
    \/ amount.v <= 0
    \/ amount.v >= MaxAmount

\* !amount || typeof amount !== 'number' || amount <= 0 || amount > 150000
AmountRejected(amount) ==
    \/ ~Truthy(amount)
    \/ TypeOf(amount) # "number"
    \/ amount.v <= 0
    \/ amount.v > MaxAmount

\* !phoneNumber || typeof phoneNumber !== 'string'
PhoneMissing(phoneNumber) ==
    ~Truthy(phoneNumber) \/ TypeOf(phoneNumber) # "string"

\* !x || typeof x !== 'string' || x.length > max
TextRejected(x, max) ==
    ~Truthy(x) \/ TypeOf(x) # "string" \/ Len(x.v) > max

StripChars == {"<", ">", "\"", "'", "&"}

\* s.replace(/[<>\"'&]/g, '')
Sanitize(s) == SelectSeq(s, LAMBDA c : c \notin StripChars)

ErrAmount   == "Invalid amount. Must be a positive number not exceeding KES 150,000."
ErrPhoneReq == "Phone number is required."
ErrPhoneFmt == "Invalid phone number format. Must be a valid Kenyan mobile number."
ErrAccount  == "Invalid account reference. Must be a non-empty string (max 20 characters)."
ErrDesc     == "Invalid transaction description. Must be a non-empty string (max 100 characters)."
ErrGeneric  == "Unable to process payment request. Please try again later."

\* The validation of the handler: a 400 response, or the four arguments the
\* handler passes to initiateSTKPush (status 0: no response yet).
ValidateStkPush(body) ==
    LET normalizedPhone == normalizePhoneNumber(body.phoneNumber) IN
    IF AmountRejected(body.amount)
      THEN [status |-> 400, error |-> ErrAmount]
    ELSE IF PhoneMissing(body.phoneNumber)
      THEN [status |-> 400, error |-> ErrPhoneReq]
    ELSE IF ~Truthy(normalizedPhone)
      THEN [status |-> 400, error |-> ErrPhoneFmt]
    ELSE IF TextRejected(body.accountReference, MaxAccountRefLen)
      THEN [status |-> 400, error |-> ErrAccount]
    ELSE IF TextRejected(body.transactionDesc, MaxDescLen)
      THEN [status |-> 400, error |-> ErrDesc]
    ELSE [status |-> 0,
          amount |-> body.amount,
          phoneNumber |-> normalizedPhone,
          accountReference |-> Str(Sanitize(body.accountReference.v)),
          transactionDesc |-> Str(Sanitize(body.transactionDesc.v))]

---------------------------------------------------------------------------
(* utils/envValidator.js.  An environment variable is a string; "" is unset. *)

\* new URL(u) succeeds
UrlParses(u) == u \in {"https://shop.example/api/mpesa/callback",
                       "http://shop.example/api/mpesa/callback"}

\* new URL(u).protocol
UrlProtocol(u) ==
    IF u = "https://shop.example/api/mpesa/callback" THEN "https:" ELSE "http:"

requiredEnvVars == <<"MPESA_CONSUMER_KEY", "MPESA_CONSUMER_SECRET", "MPESA_SHORTCODE",
                     "MPESA_PASSKEY", "MPESA_CALLBACK_URL", "MPESA_ENV">>

validateEnvironment(e) ==
    {<<"missing", requiredEnvVars[i]>> :
        i \in {j \in 1..Len(requiredEnvVars) : e[requiredEnvVars[j]] = ""}}
    \cup (IF e.MPESA_ENV # "" /\ e.MPESA_ENV \notin {"sandbox", "production"}
            THEN {<<"MPESA_ENV must be either sandbox or production">>} ELSE {})
    \cup (IF e.MPESA_CALLBACK_URL = "" THEN {}
          ELSE IF ~UrlParses(e.MPESA_CALLBACK_URL)
            THEN {<<"MPESA_CALLBACK_URL must be a valid URL">>}
          ELSE IF UrlProtocol(e.MPESA_CALLBACK_URL) # "https:"
                  /\ e.MPESA_ENV = "production"
            THEN {<<"MPESA_CALLBACK_URL must use HTTPS in production environment">>}
          ELSE {})

---------------------------------------------------------------------------
(* services/mpesa.service.js *)

SafetyMarginS  == 300
TokenTimeoutMs == 10000
PushTimeoutMs  == 30000

ErrAuth == "Unable to authenticate with M-Pesa API"
ErrPush == "Failed to initiate STK Push transaction"

\* constructor: this.baseUrl
BaseUrl(e) ==
    IF e.MPESA_ENV = "production" THEN "https://api.safaricom.co.ke"
    ELSE "https://sandbox.safaricom.co.ke"

\* the mutant: a token served at the very instant of its cached expiry
CacheValidInclusive(tok, exp, t) ==
    Truthy(tok) /\ Truthy(exp) /\ t <= exp.v

\* this.accessToken && this.tokenExpiry && Date.now() < this.tokenExpiry
CacheValid(tok, exp, t) ==
    Truthy(tok) /\ Truthy(exp) /\ t < exp.v

\* the mutant: a token already cached is kept, only the expiry is replaced
CacheWriteKeepToken(tok, exp, resp, t) ==
    [accessToken |-> IF Truthy(tok) THEN tok ELSE resp.access_token,
     tokenExpiry |-> Num(t + (resp.expires_in - SafetyMarginS) * 1000)]

\* the mutant: the expiry stored without the safety margin
CacheWriteNoMargin(tok, exp, resp, t) ==
    [accessToken |-> resp.access_token,
     tokenExpiry |-> Num(t + resp.expires_in * 1000)]

\* this.accessToken = response.data.access_token;
\* this.tokenExpiry = Date.now() + (response.data.expires_in - 300) * 1000;
CacheWrite(tok, exp, resp, t) ==
    [accessToken |-> resp.access_token,
     tokenExpiry |-> Num(t + (resp.expires_in - SafetyMarginS) * 1000)]

\* new Date().toISOString().replace(/[^0-9]/g, '').slice(0, -3): to the second
Timestamp(t) == t \div 1000

\* the payload of initiateSTKPush; Password is the base64 of the three parts
Payload(e, a, t) ==
    [BusinessShortCode |-> e.MPESA_SHORTCODE,
     Password          |-> <<e.MPESA_SHORTCODE, e.MPESA_PASSKEY, Timestamp(t)>>,
     Timestamp         |-> Timestamp(t),
     TransactionType   |-> "CustomerPayBillOnline",
     Amount            |-> a.amount,
     PartyA            |-> a.phoneNumber,
     PartyB            |-> e.MPESA_SHORTCODE,
     PhoneNumber       |-> a.phoneNumber,
     CallBackURL       |-> e.MPESA_CALLBACK_URL,
     AccountReference  |-> a.accountReference,
     TransactionDesc   |-> a.transactionDesc]

\* the mutant: the two request identifiers swapped
SuccessBodySwapped(result) ==
    [success |-> TRUE,
     message |-> "STK Push initiated successfully",
     data    |-> [merchantRequestId   |-> result.CheckoutRequestID,
                  checkoutRequestId   |-> result.MerchantRequestID,
                  responseCode        |-> result.ResponseCode,
                  responseDescription |-> result.ResponseDescription,
                  customerMessage     |-> result.CustomerMessage]]

\* routes/mpesa.routes.js: the 200 body
SuccessBody(result) ==
    [success |-> TRUE,
     message |-> "STK Push initiated successfully",
     data    |-> [merchantRequestId   |-> result.MerchantRequestID,
                  checkoutRequestId   |-> result.CheckoutRequestID,
                  responseCode        |-> result.ResponseCode,
                  responseDescription |-> result.ResponseDescription,
                  customerMessage     |-> result.CustomerMessage]]

---------------------------------------------------------------------------
(* Bounds and the inputs the environment draws from *)

MaxTicks  == 2        \* clock ticks a behaviour may take
MaxTokens == 2        \* tokens the remote issues in a behaviour
MaxHead   == 3        \* freely chosen leading characters of a phone input
MaxTail   == 10       \* filler digits after them
TickMs    == 5000     \* the clock's granularity
StartTime == 1000000  \* Date.now() when the process starts

\* the requests in flight at once: two, the least that can interleave
Reqs == {"r1", "r2"}

\* n copies of c
Fill(n, c) == [i \in 1..n |-> c]

GoodEnv == [MPESA_CONSUMER_KEY    |-> "key",
            MPESA_CONSUMER_SECRET |-> "secret",
            MPESA_SHORTCODE       |-> "174379",
            MPESA_PASSKEY         |-> "passkey",
            MPESA_CALLBACK_URL    |-> "https://shop.example/api/mpesa/callback",
            MPESA_ENV             |-> "sandbox"]

EnvConfigs ==
    { GoodEnv,
      [GoodEnv EXCEPT !.MPESA_ENV = "production"],
      [GoodEnv EXCEPT !.MPESA_ENV = "production",
                      !.MPESA_CALLBACK_URL = "http://shop.example/api/mpesa/callback"],
      [GoodEnv EXCEPT !.MPESA_ENV = "staging", !.MPESA_CALLBACK_URL = "not a url"],
      [GoodEnv EXCEPT !.MPESA_CONSUMER_SECRET = "", !.MPESA_ENV = ""],
      [GoodEnv EXCEPT !.MPESA_CONSUMER_KEY = "key2", !.MPESA_CONSUMER_SECRET = "secret2",
                      !.MPESA_PASSKEY = "passkey2"] }

\* seconds of validity the remote grants
ExpiresInValues == {300, 305, 310}

DigitChar(n) == <<"0", "1", "2", "3", "4", "5", "6", "7", "8", "9">>[n + 1]

\* the n-th token the remote issues
Token(n) == Str(<<"t", DigitChar(n)>>)

RemoteBodies ==
    { [MerchantRequestID   |-> Str(<<"m", "1">>),
       CheckoutRequestID   |-> Str(<<"c", "1">>),
       ResponseCode        |-> Str(<<"0">>),
       ResponseDescription |-> Str(<<"o", "k">>),
       CustomerMessage     |-> Str(<<"s", "e", "n", "t">>)],
      [MerchantRequestID   |-> Str(<<"m", "2">>),
       CheckoutRequestID   |-> Str(<<"c", "2">>),
       ResponseCode        |-> Str(<<"1">>),
       ResponseDescription |-> Str(<<"n", "o">>),
       CustomerMessage     |-> Undefined] }

Phone07  == Str(<<"0", "7", "1", "2", "3", "4", "5", "6", "7", "8">>)
Phone254 == Str(<<"2", "5", "4", "7", "1", "2", "3", "4", "5", "6", "7", "8">>)
Phone7   == Str(<<"7", "1", "2", "3", "4", "5", "6", "7", "8">>)

GoodBody == [amount           |-> Num(100),
             phoneNumber      |-> Phone07,
             accountReference |-> Str(<<"O", "R", "D", "1">>),
             transactionDesc  |-> Str(<<"P", "a", "y">>)]

\* the request bodies of the server specification
SampleBodies ==
    { GoodBody,
      [GoodBody EXCEPT !.amount = Num(150000), !.phoneNumber = Phone7,
                       !.accountReference = Str(<<"<", "A", ">">>)],
      [GoodBody EXCEPT !.amount = Num(0)],
      [GoodBody EXCEPT !.phoneNumber = Undefined],
      [GoodBody EXCEPT !.phoneNumber = Str(<<"1", "2", "3">>)],
      [GoodBody EXCEPT !.accountReference = Str(Fill(MaxAccountRefLen + 1, "A"))],
      [GoodBody EXCEPT !.transactionDesc = Null] }

---------------------------------------------------------------------------
(* The server: state after construction, and one action per callback *)

NoArgs    == [status |-> -1]
NoPayload == [TransactionType |-> "none"]
NoBody    == [none |-> TRUE]

\* what axios says of a request that failed
UpstreamMessages == {"timeout exceeded", "Request failed with status code 401"}

\* a timeout, which carries nothing of the request
PlainError == [message |-> "timeout exceeded", authorization |-> <<>>,
               data |-> NoPayload]

\* the error axios rejects the token request with: its message, and the
\* request it belongs to, Authorization header included (Basic key:secret)
TokenErrors(e) ==
    {[message |-> m,
      authorization |-> <<"Basic", e.MPESA_CONSUMER_KEY, e.MPESA_CONSUMER_SECRET>>,
      data |-> NoPayload] : m \in UpstreamMessages}

\* the error axios rejects the submission with: its message, and the request
\* it belongs to, bearer token and payload included
PushErrors(q) ==
    {[message |-> m, authorization |-> <<"Bearer", q.token>>, data |-> q.payload] :
        m \in UpstreamMessages}

NoReq == [body    |-> NoBody,    \* req.body
          args    |-> NoArgs,    \* what the handler passed to initiateSTKPush
          token   |-> Undefined, \* what getAccessToken returned
          payload |-> NoPayload, \* what was posted to the remote
          sentAt  |-> 0,         \* when the pending remote request was sent
          fetches |-> 0,         \* token requests this request sent
          pushes  |-> 0,         \* payment submissions this request sent
          remote  |-> NoBody,    \* the body the remote answered the submission with
          result  |-> NoBody,    \* what initiateSTKPush returned
          remoteFailed |-> "",   \* the remote request that was rejected, if any
          upstream |-> NoBody,   \* the error axios rejected it with
          thrown  |-> <<>>,      \* the errors thrown on the way, innermost first
          sent    |-> 0,         \* responses sent
          status  |-> 0,         \* res.status
          resBody |-> NoBody]    \* res.json

InitServer ==
    /\ proc = "starting"
    /\ envErrors = {}
    /\ exitCause = "none"
    /\ faults = {}
    /\ now = StartTime
    /\ accessToken = Null
    /\ tokenExpiry = Null
    /\ pc = [r \in Reqs |-> "idle"]
    /\ req = [r \in Reqs |-> NoReq]
    /\ issued = <<>>
    /\ lastToken = Undefined

Init ==
    /\ arg = Undefined
    /\ ret = Pending
    /\ env = GoodEnv
    /\ InitServer

\* the mutant: a configuration error aborts the startup
ProcAfterStartupStrict(errors) ==
    IF errors = {} THEN "listening" ELSE "exited"

\* server.js: the errors are logged and app.listen is reached whatever they are
ProcAfterStartup(errors) == "listening"

Startup ==
    /\ proc = "starting"
    /\ envErrors' = validateEnvironment(env)
    /\ proc' = ProcAfterStartup(envErrors')
    /\ exitCause' = IF proc' = "exited" THEN "config" ELSE exitCause
    /\ UNCHANGED <<arg, ret, env, faults, now, accessToken, tokenExpiry, pc, req,
                   issued, lastToken>>

\* the mutant: the process ends on an uncaught error, as Node does by default
ProcAfterFaultExit(p, kind) ==
    IF kind = "handlerError" THEN p ELSE "exited"

\* server.js: the handlers only log
ProcAfterFault(p, kind) == p

FaultKinds == {"uncaughtException", "unhandledRejection", "handlerError"}

\* process.on('uncaughtException'), process.on('unhandledRejection') and the
\* error middleware of the app
Fault(kind) ==
    /\ proc = "listening"
    /\ kind \notin faults
    /\ faults' = faults \cup {kind}
    /\ proc' = ProcAfterFault(proc, kind)
    /\ exitCause' = IF proc' = "exited" THEN kind ELSE exitCause
    /\ UNCHANGED <<arg, ret, env, envErrors, now, accessToken, tokenExpiry, pc, req,
                   issued, lastToken>>

\* process.on('SIGTERM'), process.on('SIGINT'): process.exit(0)
Signal(sig) ==
    /\ proc = "listening"
    /\ proc' = "exited"
    /\ exitCause' = sig
    /\ UNCHANGED <<arg, ret, env, envErrors, faults, now, accessToken, tokenExpiry,
                   pc, req, issued, lastToken>>

\* the clock; a pending remote request is answered or timed out by its deadline
Tick ==
    /\ now + TickMs <= StartTime + MaxTicks * TickMs
    /\ \A r \in Reqs :
          /\ pc[r] = "awaitToken" => now - req[r].sentAt < TokenTimeoutMs
          /\ pc[r] = "awaitPush"  => now - req[r].sentAt < PushTimeoutMs
    /\ now' = now + TickMs
    /\ UNCHANGED <<arg, ret, env, proc, envErrors, exitCause, faults, accessToken,
                   tokenExpiry, pc, req, issued, lastToken>>

Others == <<arg, ret, env, proc, envErrors, exitCause, faults, now>>

\* initiateSTKPush after the token: the payload is built and posted
Submit(r, a, tok) ==
    [req[r] EXCEPT !.args = a, !.token = tok, !.payload = Payload(env, a, now),
                   !.sentAt = now, !.pushes = @ + 1]

\* the locals of initiateSTKPush go out of scope when it returns or throws
Returned(q) ==
    [q EXCEPT !.token = Undefined, !.payload = NoPayload, !.sentAt = 0]

\* the mutant: the failure of the upstream answered as a bad gateway
Respond502(r, errs) ==
    [Returned(req[r]) EXCEPT !.thrown = errs, !.sent = @ + 1, !.status = 502,
                             !.resBody = [error |-> ErrGeneric]]

\* the handler's catch: res.status(500).json({error: ...})
Respond500(r, errs) ==
    [Returned(req[r]) EXCEPT !.thrown = errs, !.sent = @ + 1, !.status = 500,
                             !.resBody = [error |-> ErrGeneric]]

\* POST /stk-push up to the first await: validation, then initiateSTKPush and
\* getAccessToken, which returns the cached token or sends the token request
StkPush(r, body) ==
    /\ proc = "listening"
    /\ pc[r] = "idle"
    /\ LET v == ValidateStkPush(body) IN
       IF v.status = 400
         THEN /\ pc' = [pc EXCEPT ![r] = "done"]
              /\ req' = [req EXCEPT ![r] = [@ EXCEPT !.body = body,
                                                     !.sent = @ + 1, !.status = 400,
                                                     !.resBody = [error |-> v.error]]]
              /\ UNCHANGED lastToken
       ELSE IF CacheValid(accessToken, tokenExpiry, now)
         THEN /\ pc' = [pc EXCEPT ![r] = "awaitPush"]
              /\ req' = [req EXCEPT ![r] = [Submit(r, v, accessToken) EXCEPT
                                                !.body = body]]
              /\ lastToken' = accessToken
       ELSE /\ pc' = [pc EXCEPT ![r] = "awaitToken"]
            /\ req' = [req EXCEPT ![r] = [@ EXCEPT !.body = body, !.args = v,
                                                   !.sentAt = now, !.fetches = @ + 1]]
            /\ UNCHANGED lastToken
    /\ UNCHANGED <<accessToken, tokenExpiry, issued>>
    /\ UNCHANGED Others

\* the remote issues the token at some time between the sending of the token
\* request and the arrival of its response
IssueTimes(r) == {req[r].sentAt, now}

\* the token request resolves with a token issued at time at: the cache is
\* written, the token returned, and initiateSTKPush goes on to post the payload
TokenOk(r, e, at) ==
    /\ proc = "listening"
    /\ pc[r] = "awaitToken"
    /\ at \in IssueTimes(r)
    /\ now - req[r].sentAt < TokenTimeoutMs
    /\ Len(issued) < MaxTokens
    /\ LET resp == [access_token |-> Token(Len(issued) + 1), expires_in |-> e]
           w    == CacheWrite(accessToken, tokenExpiry, resp, now)
       IN  /\ accessToken' = w.accessToken
           /\ tokenExpiry' = w.tokenExpiry
           /\ lastToken' = w.accessToken
           /\ issued' = Append(issued, [access_token |-> resp.access_token,
                                        expires_in |-> e, issuedAt |-> at,
                                        receivedAt |-> now])
           /\ req' = [req EXCEPT ![r] = Submit(r, req[r].args, w.accessToken)]
    /\ pc' = [pc EXCEPT ![r] = "awaitPush"]
    /\ UNCHANGED Others

\* the mutant: the error of the transport passed on as it came
ThrownRaw == <<"Request failed with status code 401", ErrPush>>

\* the catch of getAccessToken throws ErrAuth whatever it caught, and the catch
\* of initiateSTKPush throws ErrPush whatever it caught
ThrownOnTokenFailure == <<ErrAuth, ErrPush>>

\* the token request rejects (transport error, auth error, timeout):
\* getAccessToken throws ErrAuth, initiateSTKPush catches it and throws
\* ErrPush, the handler answers 500
TokenFail(r, u) ==
    /\ proc = "listening"
    /\ pc[r] = "awaitToken"
    /\ pc' = [pc EXCEPT ![r] = "done"]
    /\ req' = [req EXCEPT ![r] = [Respond500(r, ThrownOnTokenFailure) EXCEPT
                                     !.remoteFailed = "token", !.upstream = u]]
    /\ UNCHANGED <<accessToken, tokenExpiry, issued, lastToken>>
    /\ UNCHANGED Others

\* return response.data
ServiceResult(data) == data

\* the submission resolves: initiateSTKPush returns the body, the handler
\* answers 200
PushOk(r, data) ==
    /\ proc = "listening"
    /\ pc[r] = "awaitPush"
    /\ now - req[r].sentAt < PushTimeoutMs
    /\ pc' = [pc EXCEPT ![r] = "done"]
    /\ req' = [req EXCEPT ![r] = [Returned(@) EXCEPT
                                      !.remote = data,
                                      !.result = ServiceResult(data),
                                      !.sent = @ + 1, !.status = 200,
                                      !.resBody = SuccessBody(ServiceResult(data))]]
    /\ UNCHANGED <<accessToken, tokenExpiry, issued, lastToken>>
    /\ UNCHANGED Others

\* the mutant: the error of the submission thrown on as it came
PushCatchRethrow(u) == u.message

\* the catch of initiateSTKPush: the error is logged, a new one thrown
PushCatch(u) == ErrPush

\* the submission rejects: initiateSTKPush throws ErrPush, the handler answers 500
PushFail(r, u) ==
    /\ proc = "listening"
    /\ pc[r] = "awaitPush"
    /\ pc' = [pc EXCEPT ![r] = "done"]
    /\ req' = [req EXCEPT ![r] = [Respond500(r, <<PushCatch(u)>>) EXCEPT
                                     !.remoteFailed = "push", !.upstream = u]]
    /\ UNCHANGED <<accessToken, tokenExpiry, issued, lastToken>>
    /\ UNCHANGED Others

\* the request is over; its slot takes the next one
Finish(r) ==
    /\ pc[r] = "done"
    /\ pc' = [pc EXCEPT ![r] = "idle"]
    /\ req' = [req EXCEPT ![r] = NoReq]
    /\ UNCHANGED <<accessToken, tokenExpiry, issued, lastToken>>
    /\ UNCHANGED Others

Next ==
    \/ Startup
    \/ Tick
    \/ \E r \in Reqs, body \in SampleBodies : StkPush(r, body)
    \/ \E r \in Reqs, e \in ExpiresInValues : TokenOk(r, e, now)
    \/ \E r \in Reqs : TokenFail(r, PlainError)
    \/ \E r \in Reqs, data \in RemoteBodies : PushOk(r, data)
    \/ \E r \in Reqs : PushFail(r, PlainError)
    \/ \E r \in Reqs : Finish(r)

Spec == Init /\ [][Next]_vars

---------------------------------------------------------------------------
(* The process: every configuration, the faults and the signals, around one
   request at a time *)

\* the request bodies of the process specification: the samples, and text
\* fields made only of the characters the route strips
ProcBodies ==
    SampleBodies \cup
    { [GoodBody EXCEPT !.accountReference = Str(<<"<", ">">>)],
      [GoodBody EXCEPT !.transactionDesc = Str(<<"&">>)] }

InitProc ==
    /\ arg = Undefined
    /\ ret = Pending
    /\ env \in EnvConfigs
    /\ InitServer

NextProc ==
    \/ Startup
    \/ \E kind \in FaultKinds : Fault(kind)
    \/ \E sig \in {"SIGTERM", "SIGINT"} : Signal(sig)
    \/ \E body \in ProcBodies : StkPush("r1", body)
    \/ \E e \in ExpiresInValues : TokenOk("r1", e, now)
    \/ \E u \in TokenErrors(env) : TokenFail("r1", u)
    \/ \E data \in RemoteBodies : PushOk("r1", data)
    \/ \E u \in PushErrors(req["r1"]) : PushFail("r1", u)
    \/ Finish("r1")

SpecProc == InitProc /\ [][NextProc]_vars

---------------------------------------------------------------------------
(* POST /callback: services/mpesa.service.js handleCallback and its route *)

\* JSON.stringify throws on a circular structure, which no parsed body is
StringifyThrows(x) == x = Obj("circular")

\* the mutant: typeof alone, which takes null for an object
handleCallbackTypeofOnly(callbackData, e) ==
    IF e.MPESA_ENV = "sandbox" /\ StringifyThrows(callbackData)
      THEN [threw |-> FALSE, success |-> FALSE, message |-> "Callback processing failed"]
    ELSE IF TypeOf(callbackData) # "object"
      THEN [threw |-> FALSE, success |-> FALSE,
            message |-> "Invalid callback data structure"]
    ELSE [threw |-> FALSE, success |-> TRUE,
          message |-> "Callback processed successfully"]

handleCallback(callbackData, e) ==
    IF e.MPESA_ENV = "sandbox" /\ StringifyThrows(callbackData)
      THEN [threw |-> FALSE, success |-> FALSE, message |-> "Callback processing failed"]
    ELSE IF ~Truthy(callbackData) \/ TypeOf(callbackData) # "object"
      THEN [threw |-> FALSE, success |-> FALSE,
            message |-> "Invalid callback data structure"]
    ELSE [threw |-> FALSE, success |-> TRUE,
          message |-> "Callback processed successfully"]

\* the route: 200 on every path, the catch included
CallbackRoute(body, e) ==
    LET result == handleCallback(body, e) IN
    IF result.threw
      THEN [status |-> 200, escaped |-> FALSE, serviceThrew |-> TRUE,
            body |-> [success |-> FALSE,
                      message |-> "Callback processing encountered an error"]]
    ELSE IF result.success
      THEN [status |-> 200, escaped |-> FALSE, serviceThrew |-> FALSE,
            body |-> [success |-> TRUE, message |-> result.message]]
    ELSE [status |-> 200, escaped |-> FALSE, serviceThrew |-> FALSE,
          body |-> [success |-> FALSE, message |-> result.message]]

CallbackPayloads ==
    { Undefined, Null, Num(0), Num(174379), Str(<<>>), Str(<<"o", "k">>),
      Bool(FALSE), Bool(TRUE), Obj("empty"), Obj("array"), Obj("stkCallback"),
      Obj("circular") }

\* what a body parser can deliver: never a circular structure
Parsed(x) == x # Obj("circular")

---------------------------------------------------------------------------
(* The pure functions, each applied once to an argument drawn at the start *)

\* sequences over S of length n
RECURSIVE SeqsOfLen(_, _)
SeqsOfLen(S, n) ==
    IF n = 0 THEN {<<>>}
    ELSE {<<c>> \o t : c \in S, t \in SeqsOfLen(S, n - 1)}

PhoneAlphabet == {"0", "2", "5", "4", "7", "-"}

PhoneHeads == UNION {SeqsOfLen(PhoneAlphabet, n) : n \in 0..MaxHead}

\* phone arguments: a free head, then filler digits; and what is no string
PhoneInputs ==
    {Str(h \o Fill(n, "1")) : h \in PhoneHeads, n \in 0..MaxTail}
    \cup {Phone07, Phone254, Phone7}
    \cup {Undefined, Null, Num(712345678), Bool(TRUE), Obj("empty")}

AmountValues ==
    { Undefined, Null, Bool(TRUE), Str(<<"1", "0", "0">>), Str(<<>>), Obj("empty"),
      Num(-1), Num(0), Num(1), Num(100), Num(MaxAmount - 1), Num(MaxAmount),
      Num(MaxAmount + 1) }

RefValues ==
    { Undefined, Num(7), Str(<<>>), Str(<<"O", "R", "D", "1">>), Str(<<"<", ">">>),
      Str(Fill(MaxAccountRefLen, "A")), Str(Fill(MaxAccountRefLen + 1, "A")) }

DescValues ==
    { Null, Str(<<>>), Str(<<"P", "a", "y">>), Str(<<"&">>),
      Str(Fill(MaxDescLen, "d")), Str(Fill(MaxDescLen + 1, "d")) }

PhoneValues == { Undefined, Num(712345678), Str(<<"1", "2", "3">>), Phone07, Phone254,
                 Phone7 }

WideBodies ==
    [amount : AmountValues, phoneNumber : PhoneValues,
     accountReference : RefValues, transactionDesc : DescValues]

InitPhone    == arg \in PhoneInputs /\ ret = Pending /\ env = GoodEnv /\ InitServer
InitValidate == arg \in WideBodies /\ ret = Pending /\ env = GoodEnv /\ InitServer
InitCallback == arg \in CallbackPayloads /\ ret = Pending /\ env \in EnvConfigs
                /\ InitServer

Server == <<env, proc, envErrors, exitCause, faults, now, accessToken, tokenExpiry,
            pc, req, issued, lastToken>>

CallNormalize ==
    /\ ret = Pending
    /\ ret' = normalizePhoneNumber(arg)
    /\ UNCHANGED <<arg, Server>>

CallValidate ==
    /\ ret = Pending
    /\ ret' = ValidateStkPush(arg)
    /\ UNCHANGED <<arg, Server>>

CallCallback ==
    /\ ret = Pending
    /\ ret' = CallbackRoute(arg, env)
    /\ UNCHANGED <<arg, Server>>

SpecPhone    == InitPhone /\ [][CallNormalize]_vars
SpecValidate == InitValidate /\ [][CallValidate]_vars
SpecCallback == InitCallback /\ [][CallCallback]_vars

\* getAccessToken calls that do not overlap and whose fetches succeed
NextSeq ==
    \/ Startup
    \/ Tick
    \/ \E r \in Reqs, body \in SampleBodies :
          (\A q \in Reqs : pc[q] # "awaitToken") /\ StkPush(r, body)
    \/ \E r \in Reqs, e \in ExpiresInValues : TokenOk(r, e, now)
    \/ \E r \in Reqs, data \in RemoteBodies : PushOk(r, data)
    \/ \E r \in Reqs : PushFail(r, PlainError)
    \/ \E r \in Reqs : Finish(r)

SpecSeq == Init /\ [][NextSeq]_vars

\* the lifetimes of the expiry specification: the ones of the server, and two
\* shorter than the time a token response may take
ExpiryValues == ExpiresInValues \cup {5, 10}

\* the token cache against the remote's clock: two callers, a valid and an
\* invalid body, every lifetime, the token issued at either end of its request
NextExpiry ==
    \/ Startup
    \/ Tick
    \/ \E r \in Reqs, body \in {GoodBody, [GoodBody EXCEPT !.amount = Num(0)]} :
          StkPush(r, body)
    \/ \E r \in Reqs, e \in ExpiryValues :
          \E at \in IssueTimes(r) : TokenOk(r, e, at)
    \/ \E r \in Reqs : PushOk(r, CHOOSE data \in RemoteBodies : TRUE)
    \/ \E r \in Reqs : Finish(r)

SpecExpiry == Init /\ [][NextExpiry]_vars

---------------------------------------------------------------------------
(* Properties of normalizePhoneNumber, under SpecPhone *)

IsDigits(s) == \A i \in 1..Len(s) : s[i] \in Digit

Called == ret # Pending

\* C2 as stated: for every 9-digit subscriber number s, the inputs "0"+s,
\* "254"+s and s itself are all mapped to "254"+s.
C2_EverySubscriber ==
    (Called /\ arg.t = "string" /\ IsDigits(arg.v)) =>
        /\ (Len(arg.v) = 10 /\ arg.v[1] = "0") => ret = Str(Prefix254 \o Tail(arg.v))
        /\ (Len(arg.v) = 12 /\ StartsWith(arg.v, Prefix254)) => ret = arg
        /\ Len(arg.v) = 9 => ret = Str(Prefix254 \o arg.v)

\* C2, amended: for every 9-digit subscriber number s, "0"+s and "254"+s are
\* mapped to "254"+s; the bare s is mapped to "254"+s when s begins with 7,
\* and to null when it begins with any other digit.
C2_SubscriberShapes ==
    (Called /\ arg.t = "string" /\ IsDigits(arg.v)) =>
        /\ (Len(arg.v) = 10 /\ arg.v[1] = "0") => ret = Str(Prefix254 \o Tail(arg.v))
        /\ (Len(arg.v) = 12 /\ StartsWith(arg.v, Prefix254)) => ret = arg
        /\ (Len(arg.v) = 9 /\ arg.v[1] = "7") => ret = Str(Prefix254 \o arg.v)
        /\ (Len(arg.v) = 9 /\ arg.v[1] # "7") => ret = Null

\* the bare number of the example has been mapped to 254712345678
C2_Witness ==
    /\ Called
    /\ arg = Phone7
    /\ ret = Phone254

\* C3 as stated: an input with non-numeric content, or of a wrong length or
\* prefix, is mapped to null; a result that is not null is 12 digits
\* beginning with 254.
C3_NonNumericIsInvalid ==
    (Called /\ arg.t = "string") =>
        /\ ( \/ ~IsDigits(arg.v)
             \/ Len(arg.v) \notin {9, 10, 12}
             \/ (Len(arg.v) = 10 /\ arg.v[1] # "0")
             \/ (Len(arg.v) = 12 /\ ~StartsWith(arg.v, Prefix254)) ) => ret = Null
        /\ ret # Null => Len(ret.v) = 12 /\ IsDigits(ret.v) /\ StartsWith(ret.v, Prefix254)

\* the digits of s are one of the three shapes
RecognizedDigits(d) ==
    \/ Len(d) = 10 /\ d[1] = "0"
    \/ Len(d) = 12 /\ StartsWith(d, Prefix254)
    \/ Len(d) = 9 /\ d[1] = "7"

\* C3, amended: non-digit characters are stripped, not rejected; the input is
\* mapped to null exactly when it is no string or the digits left after the
\* stripping have a wrong length or prefix; a result that is not null is 12
\* digits beginning with 254.
C3_InvalidAfterStripping ==
    Called =>
        /\ ret = Null <=> (arg.t # "string" \/ ~RecognizedDigits(StripNonDigits(arg.v)))
        /\ ret # Null => /\ ret.t = "string"
                         /\ Len(ret.v) = 12
                         /\ IsDigits(ret.v)
                         /\ StartsWith(ret.v, Prefix254)

\* an input with a dash in it has been accepted
C3_Witness ==
    /\ Called
    /\ arg.t = "string"
    /\ ~IsDigits(arg.v)
    /\ ret # Null

---------------------------------------------------------------------------
(* Properties of the validation of POST /stk-push, under SpecValidate *)

AmountOk(a) == a.t = "number" /\ a.v > 0 /\ a.v <= 150000

TextOk(x, max) == x.t = "string" /\ Len(x.v) >= 1 /\ Len(x.v) <= max

FieldsValid(b) ==
    /\ AmountOk(b.amount)
    /\ b.phoneNumber.t = "string"
    /\ normalizePhoneNumber(b.phoneNumber) # Null
    /\ TextOk(b.accountReference, 20)
    /\ TextOk(b.transactionDesc, 100)

\* C4: the amount check answers 400 for an amount that is 0, negative, above
\* 150000 or no number, and for no other amount: a positive number up to and
\* including 150000 goes on to the phone validation.
C4_AmountCheck ==
    Called =>
        /\ (ret.status = 400 /\ ret.error = ErrAmount) <=> ~AmountOk(arg.amount)
        /\ AmountOk(arg.amount) =>
              \/ ret.status = 0
              \/ ret.status = 400 /\ ret.error \in {ErrPhoneReq, ErrPhoneFmt, ErrAccount,
                                                    ErrDesc}
        /\ (AmountOk(arg.amount) /\ arg.phoneNumber.t # "string") =>
              ret.error = ErrPhoneReq

\* the amount at the ceiling has been accepted, and the request with it
C4_Witness ==
    /\ Called
    /\ arg.amount = Num(150000)
    /\ ret.status = 0
    /\ ret.amount = Num(150000)

---------------------------------------------------------------------------
(* Properties of POST /callback, under SpecCallback *)

\* C6: whatever the payload, the answer is 200 with a body {success,
\* message}; null and what is no object give success = false, an object gives
\* success = true; no error leaves handleCallback or the route.
C6_CallbackAlways200 ==
    Called =>
        /\ ret.status = 200
        /\ DOMAIN ret.body = {"success", "message"}
        /\ ~ret.serviceThrew
        /\ ~ret.escaped
        /\ (arg = Null \/ arg.t # "object") => ret.body.success = FALSE
        /\ (arg.t = "object" /\ Parsed(arg)) => ret.body.success = TRUE

\* a null payload has been answered 200 with the failure flag
C6_Witness ==
    /\ Called
    /\ arg = Null
    /\ ret.status = 200
    /\ ret.body.success = FALSE

---------------------------------------------------------------------------
(* Properties of the server, under Spec *)

InFlight(r) == pc[r] \in {"awaitToken", "awaitPush"}

\* C5: a request that is over has sent exactly one response; its status is
\* 400 exactly when one of the four fields is invalid, 500 exactly when the
\* fields are valid and the token request or the submission was rejected, 200
\* exactly when the fields are valid and the remote accepted the submission.
\* A request that is not over has sent none.
C5_StatusByOutcome ==
    \A r \in Reqs :
        /\ pc[r] = "done" =>
              /\ req[r].sent = 1
              /\ req[r].status \in {200, 400, 500}
              /\ req[r].status = 400 <=> ~FieldsValid(req[r].body)
              /\ req[r].status = 500 <=>
                    (FieldsValid(req[r].body) /\ req[r].remoteFailed \in {"token", "push"})
              /\ req[r].status = 200 <=>
                    (FieldsValid(req[r].body) /\ req[r].remoteFailed = ""
                       /\ req[r].remote \in RemoteBodies)
        /\ InFlight(r) => req[r].sent = 0 /\ FieldsValid(req[r].body)
        /\ pc[r] = "idle" => req[r].sent = 0

\* the three statuses have each been the answer: here a 500 and a 200 at once
C5_Witness ==
    /\ pc["r1"] = "done" /\ req["r1"].status = 500 /\ req["r1"].remoteFailed = "token"
    /\ pc["r2"] = "done" /\ req["r2"].status = 200

\* C7: when the remote accepts the submission, initiateSTKPush returns the
\* remote's body as it is and the 200 response carries its five fields
\* unchanged.
C7_EchoUnchanged ==
    \A r \in Reqs :
        (pc[r] = "done" /\ req[r].remote \in RemoteBodies) =>
            /\ req[r].status = 200
            /\ req[r].result = req[r].remote
            /\ req[r].resBody.success = TRUE
            /\ req[r].resBody.data.merchantRequestId = req[r].remote.MerchantRequestID
            /\ req[r].resBody.data.checkoutRequestId = req[r].remote.CheckoutRequestID
            /\ req[r].resBody.data.responseCode = req[r].remote.ResponseCode
            /\ req[r].resBody.data.responseDescription
                  = req[r].remote.ResponseDescription
            /\ req[r].resBody.data.customerMessage = req[r].remote.CustomerMessage

\* a 200 has been answered with the identifiers m1 and c1 of the remote
C7_Witness ==
    \E r \in Reqs :
        /\ pc[r] = "done"
        /\ req[r].status = 200
        /\ req[r].remote.MerchantRequestID = Str(<<"m", "1">>)
        /\ req[r].resBody.data.checkoutRequestId = Str(<<"c", "1">>)

\* C8: the cache is empty, or its token and its expiry both come from the
\* response received last; and the token a request submits with is one the
\* remote issued.
C8_CacheFromOneResponse ==
    /\ \/ issued = <<>> /\ accessToken = Null /\ tokenExpiry = Null
       \/ /\ issued # <<>>
          /\ accessToken = issued[Len(issued)].access_token
          /\ tokenExpiry = Num(issued[Len(issued)].receivedAt
                               + (issued[Len(issued)].expires_in - 300) * 1000)
    /\ \A r \in Reqs :
          pc[r] = "awaitPush" =>
              \E i \in 1..Len(issued) : req[r].token = issued[i].access_token

\* two requests missed the cache together and each fetched a token: the
\* first token was still valid when the second response arrived
C8_Witness ==
    /\ Len(issued) = 2
    /\ issued[1].expires_in = 310
    /\ issued[2].receivedAt < issued[1].receivedAt + 10000
    /\ \A r \in Reqs : pc[r] = "awaitPush" /\ req[r].fetches = 1
    /\ req["r1"].token # req["r2"].token
    /\ accessToken = issued[2].access_token

\* C9: a request whose token request was rejected sent one token request and
\* no submission, failed with the two opaque errors and was answered 500; the
\* step that handles the rejection leaves the cache as it was.
C9_TokenFailure ==
    /\ [](\A r \in Reqs :
            (pc[r] = "done" /\ req[r].remoteFailed = "token") =>
                /\ req[r].fetches = 1
                /\ req[r].pushes = 0
                /\ req[r].payload = NoPayload
                /\ req[r].thrown = <<ErrAuth, ErrPush>>
                /\ req[r].status = 500)
    /\ [][\A r \in Reqs :
            (pc[r] = "awaitToken" /\ pc'[r] = "done") =>
                /\ req'[r].remoteFailed = "token"
                /\ accessToken' = accessToken
                /\ tokenExpiry' = tokenExpiry
                /\ issued' = issued]_vars

\* a token request has been rejected while a token was in the cache
C9_Witness ==
    \E r \in Reqs :
        /\ pc[r] = "done"
        /\ req[r].remoteFailed = "token"
        /\ accessToken # Null

---------------------------------------------------------------------------
(* Properties of the token cache for calls that do not overlap, under SpecSeq *)

CacheMiss == accessToken = Null \/ now >= tokenExpiry.v

\* C1: a call fetches exactly when the cache is empty or the time is at or
\* past the cached expiry, which is the time of receipt plus expires_in - 300
\* seconds; a call that does not fetch returns the token the call before it
\* returned; a call that fetches sends one token request, and what it
\* returns is what it cached.
C1_FetchOnlyWhenStale ==
    /\ [](/\ \A r \in Reqs : req[r].fetches <= 1
          /\ issued # <<>> =>
                tokenExpiry = Num(issued[Len(issued)].receivedAt
                                  + (issued[Len(issued)].expires_in - 300) * 1000))
    /\ [][\A r \in Reqs :
            /\ (pc[r] = "idle" /\ InFlight(r)') =>
                  /\ (pc'[r] = "awaitToken" /\ req'[r].fetches = 1) <=> CacheMiss
                  /\ ~CacheMiss =>
                        /\ pc'[r] = "awaitPush"
                        /\ req'[r].fetches = 0
                        /\ req'[r].token = lastToken
                        /\ req'[r].token = issued[Len(issued)].access_token
                        /\ UNCHANGED <<accessToken, tokenExpiry, issued>>
            /\ (pc[r] = "awaitToken" /\ pc'[r] = "awaitPush") =>
                  /\ Len(issued') = Len(issued) + 1
                  /\ req'[r].token = accessToken'
                  /\ lastToken' = accessToken'
                  /\ req'[r].fetches = 1]_vars

\* after the first token expired a second was fetched, and a later call
\* inside its window is submitting with it without a fetch of its own
C1_Witness ==
    /\ Len(issued) = 2
    /\ now < tokenExpiry.v
    /\ \E r \in Reqs :
          /\ pc[r] = "awaitPush"
          /\ req[r].fetches = 0
          /\ req[r].token = issued[2].access_token

---------------------------------------------------------------------------
(* Properties of the process, under SpecProc *)

\* C10: the process ends on SIGTERM or SIGINT alone; whatever
\* validateEnvironment reported the startup reached listening, and after any
\* uncaught exception, unhandled rejection or handler error the process is
\* listening and takes requests.
C10_OnlySignalsEnd ==
    /\ proc = "exited" => exitCause \in {"SIGTERM", "SIGINT"}
    /\ exitCause = "none" => proc \in {"starting", "listening"}
    /\ proc = "listening" => envErrors = validateEnvironment(env)
    /\ (faults # {} /\ exitCause = "none") =>
          /\ proc = "listening"
          /\ pc["r1"] = "idle" => ENABLED StkPush("r1", GoodBody)

\* a misconfigured process that saw all three kinds of error has answered 200
C10_Witness ==
    /\ envErrors # {}
    /\ faults = FaultKinds
    /\ proc = "listening"
    /\ pc["r1"] = "done"
    /\ req["r1"].status = 200

---------------------------------------------------------------------------
(* Properties of the configuration in the payload, under SpecProc *)

IsHttps(u) == u = "https://shop.example/api/mpesa/callback"

\* C11: in production no payload is submitted whose CallBackURL is not an
\* https URL.
C11_HttpsCallbackInProduction ==
    env.MPESA_ENV = "production" =>
        \A r \in Reqs :
            pc[r] = "awaitPush" => IsHttps(req[r].payload.CallBackURL)

\* C12: a 500 response and the errors behind it are the same whatever the
\* secrets of the configuration and whatever the upstream error said: the
\* body is the one generic message, getAccessToken throws the one
\* authentication error and initiateSTKPush the one submission error.
C12_GenericFailure ==
    \A r \in Reqs :
        (pc[r] = "done" /\ req[r].status = 500) =>
            /\ req[r].resBody = [error |-> ErrGeneric]
            /\ \/ req[r].remoteFailed = "token" /\ req[r].thrown = <<ErrAuth, ErrPush>>
               \/ req[r].remoteFailed = "push" /\ req[r].thrown = <<ErrPush>>

\* under other secrets a submission was rejected with an error that carries
\* the bearer token and the password made from the passkey, and answered 500
C12_Witness ==
    /\ env.MPESA_PASSKEY = "passkey2"
    /\ pc["r1"] = "done"
    /\ req["r1"].status = 500
    /\ req["r1"].remoteFailed = "push"
    /\ req["r1"].upstream.message = "Request failed with status code 401"
    /\ req["r1"].upstream.data.Password[2] = "passkey2"
    /\ req["r1"].upstream.authorization[2] \in {Token(1), Token(2)}

\* the text field of a payload is a non-empty string of at most max characters
PayloadTextOk(x, max) == x.t = "string" /\ Len(x.v) > 0 /\ Len(x.v) <= max

\* C13: every submitted payload has a number Amount in (0, 150000], PartyA
\* equal to PhoneNumber and 12 digits beginning with 254, AccountReference
\* non-empty of at most 20 characters and TransactionDesc non-empty of at
\* most 100 characters, after the route has stripped < > " ' & from them.
C13_SubmittedPayloadValid ==
    \A r \in Reqs :
        pc[r] = "awaitPush" =>
            LET p == req[r].payload IN
            /\ p.Amount.t = "number" /\ p.Amount.v > 0 /\ p.Amount.v <= MaxAmount
            /\ p.PartyA = p.PhoneNumber
            /\ p.PartyA.t = "string" /\ Len(p.PartyA.v) = 12
            /\ IsDigits(p.PartyA.v) /\ StartsWith(p.PartyA.v, Prefix254)
            /\ PayloadTextOk(p.AccountReference, MaxAccountRefLen)
            /\ PayloadTextOk(p.TransactionDesc, MaxDescLen)

\* the request r was given its token by the cache, at time req[r].sentAt
CacheHit(r) == pc[r] = "awaitPush" /\ req[r].fetches = 0

\* C14: every token the cache returns is returned strictly before its remote
\* expiry, issue time + expires_in seconds, and was issued with expires_in
\* above 300: a token of a shorter lifetime is never served from the cache.
C14_HitBeforeRemoteExpiry ==
    \A r \in Reqs :
        CacheHit(r) =>
            \E i \in 1..Len(issued) :
                /\ issued[i].access_token = req[r].token
                /\ issued[i].expires_in > SafetyMarginS
                /\ req[r].sentAt < issued[i].issuedAt + issued[i].expires_in * 1000

\* a cache hit on a token whose response took time to arrive, after tokens of
\* lifetimes at and below the margin had been cached and not served
C14_Witness ==
    /\ CacheHit("r2")
    /\ Len(issued) = 2
    /\ issued[1].expires_in \in {5, 300}
    /\ issued[2].access_token = req["r2"].token
    /\ issued[2].issuedAt < issued[2].receivedAt
    /\ issued[2].receivedAt < req["r2"].sentAt

====
